---- MODULE Spec2Model ----
(***************************************************************************)
(* Model of the Endor Labs findings client: main.go (configuration check,  *)
(* authentication, output), internal/api/client.go (NewClient, GetToken)   *)
(* and internal/api/findings.go (filter construction, page fetch and the   *)
(* two bounded pagination loops).                                          *)
(*                                                                         *)
(* Strings that the claims inspect (filter, field mask) are sequences of   *)
(* tokens; a token is an atom of the Go string literal.  A page fetch is   *)
(* one atomic step: the request is built and sent and the server's answer  *)
(* (chosen by \E) is decoded.                                               *)
(***************************************************************************)
EXTENDS Integers, Sequences, FiniteSets, TLC

\* ---------------------------------------------------------------- bounds
MaxTotalFindings == 2      \* findings the server hands out in one invocation
MaxPageLen == 2            \* findings on one page
CounterCap == 128          \* no counter is followed beyond this value

FindingIDs == {"f1", "f2"}
Cursors == {"abc", "def"}
ProjectIDs == {"P1"}
Tokens == {"tok"}

\* ------------------------------------------------------ program constants
BaseURL == "https://api.endorlabs.com/v1"
StatusOK == 200
Nil == "nil"

EnvNames == {"ENDOR_API_KEY", "ENDOR_API_SECRET", "ENDOR_API_NAMESPACE", "ENDOR_NAMESPACE"}

\* Values an environment variable can hold after godotenv.Load: unset
\* (os.Getenv gives "") or a value.  "ns%zz" is a namespace whose URL does
\* not parse (invalid escape), the one way http.NewRequest can fail here.
EnvValues(name) ==
    IF name = "ENDOR_API_NAMESPACE" THEN {"", "ns-api", "ns%zz"}
    ELSE IF name = "ENDOR_NAMESPACE" THEN {"", "ns-readme"}
    ELSE IF name = "ENDOR_API_KEY" THEN {"", "key"}
    ELSE {"", "secret"}

Environments == {e \in [EnvNames -> {"", "key", "secret", "ns-api", "ns%zz", "ns-readme"}] :
                    \A n \in EnvNames : e[n] \in EnvValues(n)}

\* --------------------------------------------------------- token strings
ReplaceAll(s, old) == SelectSeq(s, LAMBDA t : t # old)

Contains(s, sub) ==
    \E i \in 1..(Len(s) + 1) :
        /\ i + Len(sub) - 1 <= Len(s)
        /\ SubSeq(s, i, i + Len(sub) - 1) = sub

Elems(s) == {s[i] : i \in 1..Len(s)}

\* findings.go:88-97, the raw string literal of buildFindingsFilter
FilterTemplate ==
    << "context.type == \"CONTEXT_TYPE_MAIN\"", " and ", "(", "\n",
       "\t", "\t", "spec.level in [", "\"FINDING_LEVEL_", "CRITICAL", "\"", "]", " and ", "\n",
       "\t", "\t", "spec.finding_tags not contains [\"FINDING_TAGS_EXCEPTION\"]", " and ", "\n",
       "\t", "\t", "spec.finding_categories contains [\"FINDING_CATEGORY_VULNERABILITY\"]", " and ", "\n",
       "\t", "\t", "(", "spec.finding_tags contains [\"FINDING_TAGS_POTENTIALLY_REACHABLE_FUNCTION\",\"FINDING_TAGS_REACHABLE_FUNCTION\"]", " and ", "\n",
       "\t", "\t", "spec.finding_tags contains [\"FINDING_TAGS_REACHABLE_DEPENDENCY\"]", " and ", "\n",
       "\t", "\t", "spec.finding_tags contains [\"FINDING_TAGS_FIX_AVAILABLE\"]", " and ", "\n",
       "\t", "\t", "spec.finding_tags contains [\"FINDING_TAGS_NORMAL\"]", ")", " and ", "\n",
       "\t", "\t", "spec.finding_metadata.vulnerability.spec.epss_score.probability_score >= 0.01", "\n",
       "\t", ")" >>

\* The project clause is left out (mutation of buildFindingsFilter).
buildFindingsFilter_noProject(projectUUID) ==
    ReplaceAll(ReplaceAll(FilterTemplate, "\n"), "\t")

\* findings.go:87-106
buildFindingsFilter(projectUUID) ==
    LET baseFilter == ReplaceAll(ReplaceAll(FilterTemplate, "\n"), "\t")
    IN  IF projectUUID # ""
        THEN <<"spec.", "project_uuid==", projectUUID, " and ">> \o baseFilter
        ELSE baseFilter

\* findings.go:110-124, the raw string literal of getFindingsFieldMask
MaskTemplate ==
    << "meta.description", ",", "\n",
       "\t", "\t", "meta.name", ",", "\n",
       "\t", "\t", "meta.parent_uuid", ",", "\n",
       "\t", "\t", "spec.approximation", ",", "\n",
       "\t", "\t", "spec.dependency_file_paths", ",", "\n",
       "\t", "\t", "spec.ecosystem", ",", "\n",
       "\t", "\t", "spec.explanation", ",", "\n",
       "\t", "\t", "spec.finding_categories", ",", "\n",
       "\t", "\t", "spec.finding_tags", ",", "\n",
       "\t", "\t", "spec.level", ",", "\n",
       "\t", "\t", "spec.location_urls", ",", "\n",
       "\t", "\t", "spec.project_uuid", ",", "\n",
       "\t", "\t", "spec.relationship", ",", "\n",
       "\t", "\t", "spec.summary", ",", "\n",
       "\t", "\t", "spec.target_dependency_package_name" >>

\* findings.go:108-128
getFindingsFieldMask == ReplaceAll(ReplaceAll(MaskTemplate, "\n"), "\t")

\* The levels listed between "spec.level in [" and the closing "]".
SeverityClause(filter) ==
    LET start == CHOOSE i \in 1..Len(filter) : filter[i] = "spec.level in ["
        stop  == CHOOSE j \in (start + 1)..Len(filter) :
                    /\ filter[j] = "]"
                    /\ \A k \in (start + 1)..(j - 1) : filter[k] # "]"
    IN  {filter[k] : k \in (start + 1)..(stop - 1)} \ {"\"FINDING_LEVEL_", "\"", ","}


\* ------------------------------------------------------------------ state
VARIABLES
    harness,        \* "main": the process run of main.go; "lib": a direct call of a Pager
                    \* method; "pair": both bounded Pagers called with the same server answers
    flagProjectUUID,\* value of --project_uuid after flag.Parse
    argAllProjects, \* whether --all-projects is on the command line
    env,            \* process environment after godotenv.Load
    mainPc,         \* position of main: "start", "configured", "paging", "exited"
    exitCode,       \* -1 while running, else the process exit status
    client,         \* the api.Client (apiKey, apiSecret, namespace)
    token,          \* token returned by GetToken
    authReqs,       \* POST /auth/api-key requests sent
    lastAuth,       \* the auth endpoint's answer (transport log)
    mode,           \* "none", "single" (GetFindings), "all" (GetFindingsForAllProjects),
                    \* "pair" (both), "v1", "v2" (the GetFindings without page id)
    pgState,        \* "idle", "Fetching", "Done", "Failed"
    tokenArg,       \* token argument of the Pager call
    projectArg,     \* projectUUID argument of GetFindings
    pageCount,      \* local pageCount
    nextPageID,     \* local nextPageID
    allFindings,    \* local allFindings
    retFindings,    \* returned []Finding
    retErr,         \* returned error
    stopReason,     \* which exit of the loop was taken
    reqCount,       \* GET .../findings requests sent (transport log)
    lastReq,        \* the last findings request sent (transport log)
    lastOutcome,    \* kind of the server's last answer (transport log)
    lastRespCursor, \* next_page_id of the last 200 response (transport log)
    served,         \* concatenation of the pages of all 200 responses (transport log)
    firstEmpty,     \* index of the first 200 response with empty next_page_id, 0 if none
    outFile,        \* <<>> or <<content of the file written by saveFindingsToJSON>>
    twin            \* harness "pair": GetFindingsForAllProjects run against the same answers

vars == << harness, flagProjectUUID, argAllProjects, env, mainPc, exitCode, client,
           token, authReqs, lastAuth,
           mode, pgState, tokenArg, projectArg, pageCount, nextPageID, allFindings,
           retFindings, retErr, stopReason, reqCount, lastReq, lastOutcome,
           lastRespCursor, served, firstEmpty, outFile, twin >>

mainVars  == << flagProjectUUID, argAllProjects, env, mainPc, exitCode, token, authReqs,
                lastAuth, outFile >>
pagerVars == << mode, pgState, tokenArg, projectArg, pageCount, nextPageID, allFindings,
                retFindings, retErr, stopReason >>
netVars   == << reqCount, lastReq, lastOutcome, lastRespCursor, served, firstEmpty >>

NoAuth    == [kind |-> "none", status |-> 0, token |-> ""]
NoClient  == [apiKey |-> "", apiSecret |-> "", namespace |-> ""]
NoRequest == [namespace |-> "", filter |-> <<>>, mask |-> <<>>, page_size |-> 0,
              traverse |-> "", page_id |-> <<>>, authorization |-> <<>>]
NoTwin    == [locals |-> [pgState |-> "idle", pageCount |-> 0, nextPageID |-> "",
                          allFindings |-> <<>>, retFindings |-> <<>>, retErr |-> "nil",
                          stopReason |-> "none"],
              reqCount |-> 0, lastReq |-> NoRequest]

\* client.go:24-33
NewClient(apiKey, apiSecret, namespace) ==
    [apiKey |-> apiKey, apiSecret |-> apiSecret, namespace |-> namespace]

\* ------------------------------------------------------------ the server
\* One answer of the findings endpoint: the transport fails, or a status and
\* a body arrive.  Pages are bounded by MaxPageLen and MaxTotalFindings.
Pages(room) ==
    UNION {[1..n -> FindingIDs] : n \in 0..(IF room < MaxPageLen THEN room ELSE MaxPageLen)}

ServerOutcomes(room) ==
    {[kind |-> "ok", status |-> StatusOK, objects |-> p, next_page_id |-> c] :
        p \in Pages(room), c \in Cursors \cup {""}}
    \cup {[kind |-> k, status |-> IF k = "status" THEN 500 ELSE StatusOK,
           objects |-> <<>>, next_page_id |-> ""] : k \in {"transport", "status", "decode"}}

\* http.NewRequest fails exactly when the URL does not parse; the query is
\* url.Values.Encode output, so only the namespace in the path can do that.
NewRequestFails(namespace) == namespace = "ns%zz"

\* A page_id is never sent (mutation of pageIDParam).
pageIDParam_never(pageID) == <<>>

\* findings.go:146-149: list_parameters.page_id is set only for a non-empty pageID
pageIDParam(pageID) == IF pageID # "" THEN <<pageID>> ELSE <<>>

\* The header is set without the token (mutation of bearer).
bearer_noToken(tok) == <<"Bearer ", "">>

\* findings.go:159
bearer(tok) == <<"Bearer ", tok>>

\* The flag is set whatever the cursor is (mutation of hasMore).
hasMore_always(respNextPageID) == TRUE

\* findings.go:178, and the same line of the earlier page fetches
\* (findings.go:341, unnamed/part_000:123)
hasMore(respNextPageID) == respNextPageID # ""

\* findings.go:131-181
getFindingsPageInternal(c, tok, projectUUID, pageSize, pageID, o) ==
    LET req == [namespace |-> c.namespace,
                filter |-> buildFindingsFilter(projectUUID),
                mask |-> getFindingsFieldMask,
                page_size |-> pageSize,
                traverse |-> "true",
                page_id |-> pageIDParam(pageID),
                authorization |-> bearer(tok)]
        fail(sent, e) == [sent |-> sent, findings |-> <<>>, nextPageID |-> "",
                          hasMore |-> FALSE, err |-> e]
    IN  IF NewRequestFails(c.namespace) THEN fail(<<>>, "failed to create request")
        ELSE IF o.kind = "transport" THEN fail(<<req>>, "failed to send request")
        ELSE IF o.status # StatusOK THEN fail(<<req>>, "failed to fetch findings with status")
        ELSE IF o.kind = "decode" THEN fail(<<req>>, "failed to decode response")
        ELSE [sent |-> <<req>>, findings |-> o.objects, nextPageID |-> o.next_page_id,
              hasMore |-> hasMore(o.next_page_id), err |-> Nil]

\* Pages after the first are asked for without the project clause (mutation
\* of getFindingsPage).
getFindingsPage_filterOnFirstPage(c, tok, projectUUID, pageSize, pageID, o) ==
    getFindingsPageInternal(c, tok, IF pageID = "" THEN projectUUID ELSE "",
                            pageSize, pageID, o)

\* findings.go:183-186
getFindingsPage(c, tok, projectUUID, pageSize, pageID, o) ==
    getFindingsPageInternal(c, tok, projectUUID, pageSize, pageID, o)

\* findings.go:227-230
getFindingsPageForAllProjects(c, tok, pageSize, pageID, o) ==
    getFindingsPageInternal(c, tok, "", pageSize, pageID, o)

\* The transport log after one page fetch; the request counter stays at
\* CounterCap once it is there.
Transport(r, o) ==
    /\ reqCount' = IF reqCount + Len(r.sent) > CounterCap THEN CounterCap
                    ELSE reqCount + Len(r.sent)
    /\ lastReq' = IF r.sent = <<>> THEN lastReq ELSE r.sent[1]
    /\ lastOutcome' = IF r.sent = <<>> THEN "not sent" ELSE o.kind
    /\ lastRespCursor' = IF r.err = Nil THEN o.next_page_id ELSE lastRespCursor
    /\ served' = IF r.err = Nil THEN served \o o.objects ELSE served
    /\ firstEmpty' = IF r.err = Nil /\ o.next_page_id = "" /\ firstEmpty = 0
                     THEN reqCount + 1 ELSE firstEmpty


\* --------------------------------------------------- internal/api/client.go
AuthOutcomes ==
    {[kind |-> k, status |-> IF k = "status" THEN 401 ELSE StatusOK, token |-> t] :
        k \in {"ok"}, t \in Tokens \cup {""}}
    \cup {[kind |-> k, status |-> IF k = "status" THEN 401 ELSE StatusOK, token |-> ""] :
        k \in {"transport", "status", "decode"}}

\* An empty token is returned as a token (mutation of GetToken).
GetToken_acceptsEmptyToken(c, o) ==
    IF o.kind = "transport" THEN [token |-> "", err |-> "failed to send request"]
    ELSE IF o.status # StatusOK THEN [token |-> "", err |-> "authentication failed with status"]
    ELSE IF o.kind = "decode" THEN [token |-> "", err |-> "failed to decode response"]
    ELSE [token |-> o.token, err |-> Nil]

\* client.go:36-80.  The URL is constant and the payload a map of strings, so
\* json.Marshal and http.NewRequest cannot fail: the request is always sent.
GetToken(c, o) ==
    IF o.kind = "transport" THEN [token |-> "", err |-> "failed to send request"]
    ELSE IF o.status # StatusOK THEN [token |-> "", err |-> "authentication failed with status"]
    ELSE IF o.kind = "decode" THEN [token |-> "", err |-> "failed to decode response"]
    ELSE IF o.token = "" THEN [token |-> "", err |-> "no token received in response"]
    ELSE [token |-> o.token, err |-> Nil]

\* ------------------------------------------------- the bounded Pager loops
PageSize == 100     \* findings.go:50
PageLimit == 100    \* findings.go:77

\* Findings already accumulated are skipped (mutation of appendFindings).
appendFindings_dedup(all, findings) ==
    all \o SelectSeq(findings, LAMBDA f : f \notin Elems(all))

\* The page replaces the accumulator (mutation of appendFindings).
appendFindings_overwrite(all, findings) == findings

\* findings.go:63
appendFindings(all, findings) == all \o findings

\* The partial accumulator is returned with the error (mutation of returnOnError).
returnOnError_partial(all, err) == [findings |-> all, err |-> err]

\* findings.go:57-59
returnOnError(all, err) == [findings |-> <<>>, err |-> err]

\* The empty cursor does not end the loop (mutation of noNextPage).
noNextPage_never(id) == FALSE

\* findings.go:69
noNextPage(id) == id = ""

\* The page counter does not end the loop (mutation of safetyLimitReached).
safetyLimitReached_never(n) == FALSE

\* The loop ends with the page that reaches the limit (mutation of
\* safetyLimitReached).
safetyLimitReached_atLimit(n) == n >= PageLimit

\* findings.go:77
safetyLimitReached(n) == n > PageLimit

\* findings.go:83
returnAfterLoop(all) == [findings |-> all, err |-> Nil]

\* findings.go:48-53, the call and the locals before the loop
EnterPager(m, c, tok, projectUUID) ==
    /\ mode' = m
    /\ client' = c
    /\ tokenArg' = tok
    /\ projectArg' = projectUUID
    /\ pgState' = "Fetching"
    /\ pageCount' = 0
    /\ nextPageID' = ""
    /\ allFindings' = <<>>
    /\ UNCHANGED << retFindings, retErr, stopReason >>

\* The locals and the result of the Pager call as one value.
Locals ==
    [pgState |-> pgState, pageCount |-> pageCount, nextPageID |-> nextPageID,
     allFindings |-> allFindings, retFindings |-> retFindings, retErr |-> retErr,
     stopReason |-> stopReason]

SetLocals(n) ==
    /\ pgState' = n.pgState
    /\ pageCount' = n.pageCount
    /\ nextPageID' = n.nextPageID
    /\ allFindings' = n.allFindings
    /\ retFindings' = n.retFindings
    /\ retErr' = n.retErr
    /\ stopReason' = n.stopReason

\* The flag decides whether a next page exists (mutation of pageResult).
pageResult_usesHasMore(r) ==
    [findings |-> r.findings,
     newNextPageID |-> IF r.hasMore THEN r.nextPageID ELSE "",
     err |-> r.err]

\* findings.go:56: findings, newNextPageID, _, err := c.getFindingsPage(...)
pageResult(r) ==
    [findings |-> r.findings, newNextPageID |-> r.nextPageID, err |-> r.err]

\* findings.go:54-83, one iteration of the loop of GetFindings on the locals
\* s, r being the result of getFindingsPage
GetFindingsLoop(s, r) ==
    LET p == pageResult(r)
        n == s.pageCount + 1
        all == appendFindings(s.allFindings, p.findings)
        ret == IF p.err # Nil THEN returnOnError(s.allFindings, p.err)
               ELSE returnAfterLoop(all)
        fetched == [s EXCEPT !.pageCount = n, !.allFindings = all,
                             !.nextPageID = p.newNextPageID]
    IN  IF p.err # Nil
        THEN [s EXCEPT !.pageCount = n, !.pgState = "Failed", !.stopReason = "error",
                       !.retFindings = ret.findings, !.retErr = ret.err]
        ELSE IF noNextPage(p.newNextPageID)
        THEN [fetched EXCEPT !.pgState = "Done", !.stopReason = "no next page",
                             !.retFindings = ret.findings, !.retErr = ret.err]
        ELSE IF safetyLimitReached(n)
        THEN [fetched EXCEPT !.pgState = "Done", !.stopReason = "safety limit",
                             !.retFindings = ret.findings, !.retErr = ret.err]
        ELSE fetched

\* findings.go:48-84, GetFindings: one iteration of its loop with the page
\* fetch it makes
GetFindings ==
    /\ mode = "single"
    /\ pgState = "Fetching"
    /\ pageCount < CounterCap
    /\ \E o \in ServerOutcomes(MaxTotalFindings - Len(served)) :
        \E r \in {getFindingsPage(client, tokenArg, projectArg, PageSize, nextPageID, o)} :
        \E n \in {GetFindingsLoop(Locals, r)} :
            /\ Transport(r, o)
            /\ SetLocals(n)
    /\ UNCHANGED << harness, mainVars, client, mode, tokenArg, projectArg, twin >>

\* findings.go:195-224, one iteration of the loop of GetFindingsForAllProjects
\* on the locals s, r being the result of getFindingsPageForAllProjects
GetFindingsForAllProjectsLoop(s, r) ==
    LET findings == r.findings
        newNextPageID == r.nextPageID
        err == r.err
        fetched == [s EXCEPT !.pageCount = s.pageCount + 1,
                             !.allFindings = s.allFindings \o findings,
                             !.nextPageID = newNextPageID]
    IN  IF err # Nil
        THEN [s EXCEPT !.pageCount = s.pageCount + 1, !.pgState = "Failed",
                       !.stopReason = "error", !.retFindings = <<>>, !.retErr = err]
        ELSE IF newNextPageID = ""
        THEN [fetched EXCEPT !.pgState = "Done", !.stopReason = "no next page",
                             !.retFindings = s.allFindings \o findings, !.retErr = Nil]
        ELSE IF s.pageCount + 1 > 100
        THEN [fetched EXCEPT !.pgState = "Done", !.stopReason = "safety limit",
                             !.retFindings = s.allFindings \o findings, !.retErr = Nil]
        ELSE fetched

\* findings.go:189-225, GetFindingsForAllProjects: one iteration of its loop
\* with the page fetch it makes
GetFindingsForAllProjects ==
    /\ mode = "all"
    /\ pgState = "Fetching"
    /\ pageCount < CounterCap
    /\ \E o \in ServerOutcomes(MaxTotalFindings - Len(served)) :
        \E r \in {getFindingsPageForAllProjects(client, tokenArg, 100, nextPageID, o)} :
        \E n \in {GetFindingsForAllProjectsLoop(Locals, r)} :
            /\ Transport(r, o)
            /\ SetLocals(n)
    /\ UNCHANGED << harness, mainVars, client, mode, tokenArg, projectArg, twin >>

\* ------------------------------------ the GetFindings without a page id
\* findings.go:304
getFindingsPageV1Filter(projectUUID) == <<"spec.", "project_uuid==", projectUUID>>

\* findings.go:298-344, the earliest getFindingsPage: project filter only, no
\* traverse and no page_id parameter
getFindingsPageV1(c, tok, projectUUID, pageSize, o) ==
    LET req == [namespace |-> c.namespace,
                filter |-> getFindingsPageV1Filter(projectUUID),
                mask |-> <<"meta", ",", "spec.project_uuid">>,
                page_size |-> pageSize,
                traverse |-> "",
                page_id |-> <<>>,
                authorization |-> <<"Bearer ", tok>>]
        fail(sent, e) == [sent |-> sent, findings |-> <<>>, nextPageID |-> "",
                          hasMore |-> FALSE, err |-> e]
    IN  IF NewRequestFails(c.namespace) THEN fail(<<>>, "failed to create request")
        ELSE IF o.kind = "transport" THEN fail(<<req>>, "failed to send request")
        ELSE IF o.status # StatusOK THEN fail(<<req>>, "failed to fetch findings with status")
        ELSE IF o.kind = "decode" THEN fail(<<req>>, "failed to decode response")
        ELSE [sent |-> <<req>>, findings |-> o.objects, nextPageID |-> o.next_page_id,
              hasMore |-> hasMore(o.next_page_id), err |-> Nil]

\* unnamed/part_000:82, the filter written on one line
getFindingsPageV2Filter(projectUUID) ==
    << "spec.", "project_uuid==", projectUUID, " and ",
       "context.type == \"CONTEXT_TYPE_MAIN\"", " and ", "(",
       "spec.level in [", "\"FINDING_LEVEL_", "CRITICAL", "\"", "]", " and ",
       "spec.finding_tags not contains [\"FINDING_TAGS_EXCEPTION\"]", " and ",
       "spec.finding_categories contains [\"FINDING_CATEGORY_VULNERABILITY\"]", " and ",
       "(", "spec.finding_tags contains [\"FINDING_TAGS_POTENTIALLY_REACHABLE_FUNCTION\",\"FINDING_TAGS_REACHABLE_FUNCTION\"]", " and ",
       "spec.finding_tags contains [\"FINDING_TAGS_REACHABLE_DEPENDENCY\"]", " and ",
       "spec.finding_tags contains [\"FINDING_TAGS_FIX_AVAILABLE\"]", " and ",
       "spec.finding_tags contains [\"FINDING_TAGS_NORMAL\"]", ")", " and ",
       "spec.finding_metadata.vulnerability.spec.epss_score.probability_score >= 0.01",
       ")" >>

\* unnamed/part_000:86, the field mask written on one line
getFindingsPageV2Mask ==
    << "meta.description", ",", "meta.name", ",", "meta.parent_uuid", ",",
       "spec.approximation", ",", "spec.dependency_file_paths", ",", "spec.ecosystem", ",",
       "spec.explanation", ",", "spec.finding_categories", ",", "spec.finding_tags", ",",
       "spec.level", ",", "spec.location_urls", ",", "spec.project_uuid", ",",
       "spec.relationship", ",", "spec.summary", ",",
       "spec.target_dependency_package_name" >>

\* unnamed/part_000:74-126, the getFindingsPage with the full filter and
\* traverse, still without a page_id parameter
getFindingsPageV2(c, tok, projectUUID, pageSize, o) ==
    LET req == [namespace |-> c.namespace,
                filter |-> getFindingsPageV2Filter(projectUUID),
                mask |-> getFindingsPageV2Mask,
                page_size |-> pageSize,
                traverse |-> "true",
                page_id |-> <<>>,
                authorization |-> <<"Bearer ", tok>>]
        fail(sent, e) == [sent |-> sent, findings |-> <<>>, nextPageID |-> "",
                          hasMore |-> FALSE, err |-> e]
    IN  IF NewRequestFails(c.namespace) THEN fail(<<>>, "failed to create request")
        ELSE IF o.kind = "transport" THEN fail(<<req>>, "failed to send request")
        ELSE IF o.status # StatusOK THEN fail(<<req>>, "failed to fetch findings with status")
        ELSE IF o.kind = "decode" THEN fail(<<req>>, "failed to decode response")
        ELSE [sent |-> <<req>>, findings |-> o.objects, nextPageID |-> o.next_page_id,
              hasMore |-> hasMore(o.next_page_id), err |-> Nil]

\* findings.go:275-295, one iteration of the loop of the earliest GetFindings;
\* nextPageID is a variable of the loop body and is never sent
GetFindingsV1Loop(s, r) ==
    LET all == s.allFindings \o r.findings
    IN  IF r.err # Nil
        THEN [s EXCEPT !.pgState = "Failed", !.stopReason = "error",
                       !.retFindings = <<>>, !.retErr = r.err]
        ELSE IF ~r.hasMore
        THEN [s EXCEPT !.allFindings = all, !.pgState = "Done",
                       !.stopReason = "no more pages",
                       !.retFindings = all, !.retErr = Nil]
        ELSE IF r.nextPageID = ""
        THEN [s EXCEPT !.allFindings = all, !.pgState = "Done",
                       !.stopReason = "no next page",
                       !.retFindings = all, !.retErr = Nil]
        ELSE [s EXCEPT !.allFindings = all]

\* unnamed/part_000:51-71, one iteration of the loop of that GetFindings
GetFindingsV2Loop(s, r) ==
    LET all == s.allFindings \o r.findings
    IN  IF r.err # Nil
        THEN [s EXCEPT !.pgState = "Failed", !.stopReason = "error",
                       !.retFindings = <<>>, !.retErr = r.err]
        ELSE IF ~r.hasMore
        THEN [s EXCEPT !.allFindings = all, !.pgState = "Done",
                       !.stopReason = "no more pages",
                       !.retFindings = all, !.retErr = Nil]
        ELSE IF r.nextPageID = ""
        THEN [s EXCEPT !.allFindings = all, !.pgState = "Done",
                       !.stopReason = "no next page",
                       !.retFindings = all, !.retErr = Nil]
        ELSE [s EXCEPT !.allFindings = all]

\* findings.go:271-296, the earliest GetFindings: one iteration with its fetch
GetFindingsV1 ==
    /\ mode = "v1"
    /\ pgState = "Fetching"
    /\ \E o \in ServerOutcomes(MaxTotalFindings - Len(served)) :
        \E r \in {getFindingsPageV1(client, tokenArg, projectArg, 100, o)} :
        \E n \in {GetFindingsV1Loop(Locals, r)} :
            /\ Transport(r, o)
            /\ SetLocals(n)
    /\ UNCHANGED << harness, mainVars, client, mode, tokenArg, projectArg, twin >>

\* unnamed/part_000:47-72, that GetFindings: one iteration with its fetch
GetFindingsV2 ==
    /\ mode = "v2"
    /\ pgState = "Fetching"
    /\ \E o \in ServerOutcomes(MaxTotalFindings - Len(served)) :
        \E r \in {getFindingsPageV2(client, tokenArg, projectArg, 100, o)} :
        \E n \in {GetFindingsV2Loop(Locals, r)} :
            /\ Transport(r, o)
            /\ SetLocals(n)
    /\ UNCHANGED << harness, mainVars, client, mode, tokenArg, projectArg, twin >>

\* A caller of the earliest GetFindings (findings.go:271).
CallGetFindingsV1 ==
    /\ harness = "lib"
    /\ pgState = "idle"
    /\ \E tok \in Tokens, p \in ProjectIDs :
        EnterPager("v1", NewClient("key", "secret", "ns-api"), tok, p)
    /\ UNCHANGED << harness, mainVars, netVars, twin >>

\* A caller of the GetFindings of unnamed/part_000:47.
CallGetFindingsV2 ==
    /\ harness = "lib"
    /\ pgState = "idle"
    /\ \E tok \in Tokens, p \in ProjectIDs :
        EnterPager("v2", NewClient("key", "secret", "ns-api"), tok, p)
    /\ UNCHANGED << harness, mainVars, netVars, twin >>

\* -------------------------------------- both bounded Pagers, side by side
\* GetFindings and GetFindingsForAllProjects are called on the same client
\* with the same token; the second runs in twin.
CallBothPagers ==
    /\ harness = "pair"
    /\ pgState = "idle"
    /\ \E tok \in Tokens, p \in ProjectIDs :
        EnterPager("pair", NewClient("key", "secret", "ns-api"), tok, p)
    /\ twin' = [twin EXCEPT !.locals.pgState = "Fetching"]
    /\ UNCHANGED << harness, mainVars, netVars >>

\* One iteration of each loop; the server gives both the same answer.
BothPagers ==
    /\ mode = "pair"
    /\ pgState = "Fetching"
    /\ twin.locals.pgState = "Fetching"
    /\ pageCount < CounterCap
    /\ \E o \in ServerOutcomes(MaxTotalFindings - Len(served)) :
        \E r1 \in {getFindingsPage(client, tokenArg, projectArg, PageSize, nextPageID, o)} :
        \E r2 \in {getFindingsPageForAllProjects(client, tokenArg, 100,
                                                  twin.locals.nextPageID, o)} :
        \E n \in {GetFindingsLoop(Locals, r1)} :
            /\ Transport(r1, o)
            /\ SetLocals(n)
            /\ twin' = [locals |-> GetFindingsForAllProjectsLoop(twin.locals, r2),
                        reqCount |-> twin.reqCount + Len(r2.sent),
                        lastReq |-> IF r2.sent = <<>> THEN twin.lastReq ELSE r2.sent[1]]
    /\ UNCHANGED << harness, mainVars, client, mode, tokenArg, projectArg >>

\* A caller of the exported method GetFindings, on a client of its own and
\* with a project identifier.
CallGetFindings ==
    /\ harness = "lib"
    /\ pgState = "idle"
    /\ \E tok \in Tokens, p \in ProjectIDs, ns \in EnvValues("ENDOR_API_NAMESPACE") \ {""} :
        EnterPager("single", NewClient("key", "secret", ns), tok, p)
    /\ UNCHANGED << harness, mainVars, netVars, twin >>

\* A caller of the exported method GetFindingsForAllProjects.
CallGetFindingsForAllProjects ==
    /\ harness = "lib"
    /\ pgState = "idle"
    /\ \E tok \in Tokens, ns \in EnvValues("ENDOR_API_NAMESPACE") \ {""} :
        EnterPager("all", NewClient("key", "secret", ns), tok, "")
    /\ UNCHANGED << harness, mainVars, netVars, twin >>

\* ------------------------------------------------------------------ main.go
\* The namespace is not checked (mutation of ConfigMissing).
ConfigMissing_noNamespace(apiKey, apiSecret, namespace) ==
    apiKey = "" \/ apiSecret = ""

\* main.go:112
ConfigMissing(apiKey, apiSecret, namespace) ==
    apiKey = "" \/ apiSecret = "" \/ namespace = ""

Exit(code) ==
    /\ mainPc' = "exited"
    /\ exitCode' = code

\* main.go:98-99.  project_uuid is the only flag defined; flag.Parse on the
\* ExitOnError command line exits with status 2 on any other flag.
flagParseFails(allProjects) == allProjects

\* main.go:97-121: flag parsing, the usage check, the environment check and
\* the construction of the client
MainConfig ==
    /\ harness = "main"
    /\ mainPc = "start"
    /\ LET apiKey == env["ENDOR_API_KEY"]
           apiSecret == env["ENDOR_API_SECRET"]
           namespace == env["ENDOR_API_NAMESPACE"]
       IN  IF flagParseFails(argAllProjects) THEN Exit(2) /\ UNCHANGED client
           ELSE IF flagProjectUUID = "" THEN Exit(1) /\ UNCHANGED client
           ELSE IF ConfigMissing(apiKey, apiSecret, namespace) THEN Exit(1) /\ UNCHANGED client
           ELSE /\ client' = NewClient(apiKey, apiSecret, namespace)
                /\ mainPc' = "configured"
                /\ UNCHANGED exitCode
    /\ UNCHANGED << harness, flagProjectUUID, argAllProjects, env, token, authReqs, lastAuth,
                    outFile, pagerVars, netVars, twin >>

\* main.go:123-132: GetToken, log.Fatalf on error, else the call of GetFindings
MainGetToken ==
    /\ harness = "main"
    /\ mainPc = "configured"
    /\ \E o \in AuthOutcomes :
        LET r == GetToken(client, o)
        IN  /\ authReqs' = authReqs + 1
            /\ lastAuth' = o
            /\ IF r.err # Nil
               THEN /\ Exit(1)
                    /\ UNCHANGED << token, client, pagerVars >>
               ELSE /\ token' = r.token
                    /\ mainPc' = "paging"
                    /\ EnterPager("single", client, r.token, flagProjectUUID)
                    /\ UNCHANGED exitCode
    /\ UNCHANGED << harness, flagProjectUUID, argAllProjects, env, outFile, netVars, twin >>

\* ------------------------------------------------------- the JSON document
\* findings.go:14, the UUID field of a decoded Finding: text the server
\* chose, which may hold characters that encoding/json escapes.
UUID(f) == IF f = "f1" THEN <<"a", "1">> ELSE <<"\"", "b", "\\", "<", "2">>

\* encoding/json, the escapes of one character of a string (HTML escaping is
\* on in json.MarshalIndent): a backslash and a code.
jsonEscapeRune(c) ==
    CASE c = "\"" -> <<"\\", "\"">>
      [] c = "\\" -> <<"\\", "\\">>
      [] c = "<"  -> <<"\\", "u003c">>
      [] c = ">"  -> <<"\\", "u003e">>
      [] c = "&"  -> <<"\\", "u0026">>
      [] OTHER    -> <<c>>

RECURSIVE jsonEscape(_)
jsonEscape(chars) ==
    IF chars = <<>> THEN <<>>
    ELSE jsonEscapeRune(Head(chars)) \o jsonEscape(Tail(chars))

\* encoding/json, a Go string as a JSON string
jsonString(chars) == <<"\"">> \o jsonEscape(chars) \o <<"\"">>

\* encoding/json on findings.go:13-34, one Finding at the indentation of the
\* findings array; the meta and spec objects are single tokens.
jsonFinding(f) ==
    <<"{", "\n", "      ", "\"uuid\"", ":", " ">> \o jsonString(UUID(f))
    \o <<",", "\n", "      ", "\"meta\"", ":", " ", "{meta}",
         ",", "\n", "      ", "\"spec\"", ":", " ", "{spec}", "\n", "    ", "}">>

RECURSIVE jsonFindings(_)
jsonFindings(findings) ==
    IF findings = <<>> THEN <<>>
    ELSE <<"\n", "    ">> \o jsonFinding(Head(findings))
         \o (IF Tail(findings) = <<>> THEN <<>> ELSE <<",">>)
         \o jsonFindings(Tail(findings))

\* main.go:194, json.MarshalIndent(output, "", "  ").  A list without
\* elements is the nil slice of GetFindings and is written as null.
MarshalIndent(output) ==
    <<"{", "\n", "  ", "\"timestamp\"", ":", " ">> \o jsonString(<<output.timestamp>>)
    \o <<",", "\n", "  ", "\"project_uuid\"", ":", " ">> \o jsonString(<<output.project_uuid>>)
    \o <<",", "\n", "  ", "\"total_findings\"", ":", " ", ToString(output.total_findings)>>
    \o <<",", "\n", "  ", "\"findings\"", ":", " ">>
    \o (IF output.findings = <<>> THEN <<"null">>
        ELSE <<"[">> \o jsonFindings(output.findings) \o <<"\n", "  ", "]">>)
    \o <<"\n", "}">>

\* encoding/json, the reverse of jsonEscapeRune for the code after a backslash
jsonUnescape(code) ==
    CASE code = "u003c" -> "<"
      [] code = "u003e" -> ">"
      [] code = "u0026" -> "&"
      [] OTHER          -> code

JsonSpace == {"\n", " ", "  ", "    ", "      "}

\* encoding/json, the scanner's escape state: position i follows an odd
\* number of backslashes, so it is the code of an escape.
jsonEscaped(doc, i) ==
    LET k == CHOOSE k \in 0..(i - 1) :
                /\ \A j \in (i - k)..(i - 1) : doc[j] = "\\"
                /\ (k = i - 1 \/ doc[i - k - 1] # "\\")
    IN  k % 2 = 1

\* encoding/json, the quotes that open or close a string
jsonQuotes(doc) == {i \in 1..Len(doc) : doc[i] = "\"" /\ ~jsonEscaped(doc, i)}

\* encoding/json, the text of the string opened by the quote at position i:
\* up to the next closing quote, every escape replaced by its character.
jsonReadString(doc, i) ==
    LET later == {q \in jsonQuotes(doc) : q > i}
        close == IF later = {} THEN Len(doc) + 1
                 ELSE CHOOSE q \in later : \A q2 \in later : q <= q2
        inner == SelectSeq([k \in 1..(close - i - 1) |-> i + k],
                           LAMBDA j : ~(doc[j] = "\\" /\ ~jsonEscaped(doc, j)))
    IN  [k \in 1..Len(inner) |->
            IF jsonEscaped(doc, inner[k]) THEN jsonUnescape(doc[inner[k]])
            ELSE doc[inner[k]]]

\* encoding/json, the scanner: the document as lexemes, white space dropped
\* and every string read to its closing quote.
jsonLex(doc) ==
    LET quotes == jsonQuotes(doc)
        outside(i) == Cardinality({q \in quotes : q < i}) % 2 = 0
        starts == SelectSeq([i \in 1..Len(doc) |-> i],
                            LAMBDA i : outside(i) /\ doc[i] \notin JsonSpace)
    IN  [k \in 1..Len(starts) |->
            IF starts[k] \in quotes
            THEN [t |-> "string", v |-> jsonReadString(doc, starts[k])]
            ELSE [t |-> "token", v |-> <<doc[starts[k]]>>]]

\* json.Unmarshal of the document into the output structure of main.go:181-186:
\* the number after total_findings and the uuid of every object of findings.
Unmarshal(doc) ==
    LET lex == jsonLex(doc)
        isKey(i, k) == lex[i] = [t |-> "token", v |-> <<k>>]
        after(k) == CHOOSE i \in 1..Len(lex) : isKey(i, k)
        hasKey(k) == \E i \in 1..Len(lex) : isKey(i, k)
        number(tok) == IF \E n \in 0..Len(doc) : ToString(n) = tok
                       THEN CHOOSE n \in 0..Len(doc) : ToString(n) = tok
                       ELSE -1
        uuidAt == SelectSeq([i \in 1..Len(lex) |-> i],
                            LAMBDA i : isKey(i, "\"uuid\"") /\ i + 2 <= Len(lex))
    IN  [total_findings |->
            IF hasKey("\"total_findings\"") /\ after("\"total_findings\"") + 2 <= Len(lex)
            THEN number(lex[after("\"total_findings\"") + 2].v[1]) ELSE -1,
         findings |-> [j \in 1..Len(uuidAt) |-> lex[uuidAt[j] + 2].v]]

\* The count is the number of distinct findings (mutation of outputStruct).
outputStruct_distinctCount(findings, projectUUID) ==
    [timestamp |-> "now", project_uuid |-> projectUUID,
     total_findings |-> Cardinality(Elems(findings)), findings |-> findings]

\* main.go:181-191
outputStruct(findings, projectUUID) ==
    [timestamp |-> "now", project_uuid |-> projectUUID,
     total_findings |-> Len(findings), findings |-> findings]

\* main.go:175-206.  w says whether os.WriteFile succeeds; the value is the
\* file's content, if a file was written.
saveFindingsToJSON(findings, projectUUID, w) ==
    LET output == outputStruct(findings, projectUUID)
        jsonData == MarshalIndent(output)
    IN  IF w THEN <<jsonData>> ELSE <<>>

\* The error of the Pager is not looked at (mutation of pagerFailed).
pagerFailed_ignored(err) == FALSE

\* main.go:133
pagerFailed(err) == err # Nil

\* main.go:133-172: log.Fatalf on a Pager error, else display and save
MainOutput ==
    /\ harness = "main"
    /\ mainPc = "paging"
    /\ pgState \in {"Done", "Failed"}
    /\ IF pagerFailed(retErr)
       THEN Exit(1) /\ UNCHANGED outFile
       ELSE /\ \E w \in BOOLEAN : outFile' = saveFindingsToJSON(retFindings, flagProjectUUID, w)
            /\ Exit(0)
    /\ UNCHANGED << harness, flagProjectUUID, argAllProjects, env, client, token, authReqs,
                    lastAuth, pagerVars, netVars, twin >>

\* ---------------------------------------------------------- specification
Init ==
    /\ harness \in {"main", "lib", "pair"}
    /\ flagProjectUUID \in (IF harness = "main" THEN ProjectIDs \cup {""} ELSE {""})
    /\ argAllProjects \in (IF harness = "main" THEN BOOLEAN ELSE {FALSE})
    /\ env \in (IF harness = "main" THEN Environments ELSE {[n \in EnvNames |-> ""]})
    /\ mainPc = IF harness = "main" THEN "start" ELSE "none"
    /\ exitCode = -1
    /\ client = NoClient
    /\ token = ""
    /\ authReqs = 0
    /\ lastAuth = NoAuth
    /\ mode = "none"
    /\ pgState = "idle"
    /\ tokenArg = ""
    /\ projectArg = ""
    /\ pageCount = 0
    /\ nextPageID = ""
    /\ allFindings = <<>>
    /\ retFindings = <<>>
    /\ retErr = Nil
    /\ stopReason = "none"
    /\ reqCount = 0
    /\ lastReq = NoRequest
    /\ lastOutcome = "none"
    /\ lastRespCursor = ""
    /\ served = <<>>
    /\ firstEmpty = 0
    /\ outFile = <<>>
    /\ twin = NoTwin

Next ==
    \/ MainConfig
    \/ MainGetToken
    \/ MainOutput
    \/ CallGetFindings
    \/ CallGetFindingsForAllProjects
    \/ GetFindings
    \/ GetFindingsForAllProjects
    \/ CallGetFindingsV1
    \/ CallGetFindingsV2
    \/ GetFindingsV1
    \/ GetFindingsV2
    \/ CallBothPagers
    \/ BothPagers

Spec == Init /\ [][Next]_vars

\* Every call of the process returns: each page fetch, the auth request and
\* the steps of main are eventually taken when they are enabled.
FairSpec ==
    /\ Spec
    /\ WF_vars(GetFindings)
    /\ WF_vars(GetFindingsForAllProjects)
    /\ WF_vars(GetFindingsV1)
    /\ WF_vars(GetFindingsV2)
    /\ WF_vars(BothPagers)
    /\ WF_vars(MainConfig)
    /\ WF_vars(MainGetToken)
    /\ WF_vars(MainOutput)

TypeOK ==
    /\ pgState \in {"idle", "Fetching", "Done", "Failed"}
    /\ mode \in {"none", "single", "all", "pair", "v1", "v2"}
    /\ pageCount \in 0..CounterCap
    /\ nextPageID \in Cursors \cup {""}
    /\ Len(allFindings) <= MaxTotalFindings


\* ================================================================= claims

\* The Pager with the page counter: GetFindings (findings.go:48) and
\* GetFindingsForAllProjects.
BoundedPager == mode \in {"single", "all", "pair"}

\* C1: when every fetch succeeded, the returned list is the concatenation, in
\* fetch order, of the pages the server sent: nothing dropped, reordered or
\* deduplicated.
C1_Concatenation ==
    pgState = "Done" => (retErr = Nil /\ retFindings = served)

\* A finished run of several pages whose result holds the same finding twice.
C1_Witness ==
    /\ pgState = "Done"
    /\ reqCount >= 2
    /\ retFindings = <<"f1", "f1">>

\* C2: the first request carries no page id; every later request carries
\* exactly the non-empty next_page_id of the response before it.
C2_CursorHandOff ==
    [][(BoundedPager /\ reqCount' = reqCount + 1) =>
          IF reqCount = 0
          THEN lastReq'.page_id = <<>>
          ELSE lastRespCursor # "" /\ lastReq'.page_id = <<lastRespCursor>>]_vars

\* The third request carried the cursor "def" of the second response, and
\* its own response handed out a different cursor for the fourth.
C2_Witness ==
    /\ reqCount = 3
    /\ pgState = "Fetching"
    /\ lastReq.page_id = <<"def">>
    /\ nextPageID = "abc"

\* C3 (as claimed): when the iteration bound stops the Pager, exactly 100
\* requests have been sent.
C3_ExactlyHundredFetches ==
    stopReason = "safety limit" => reqCount = 100

\* C4: after a failed fetch the Pager returns the error of that fetch and no
\* findings, and sends no further request.
FetchError(kind) ==
    CASE kind = "not sent"  -> "failed to create request"
      [] kind = "transport" -> "failed to send request"
      [] kind = "status"    -> "failed to fetch findings with status"
      [] kind = "decode"    -> "failed to decode response"
      [] OTHER              -> Nil

C4_FailureDiscards ==
    /\ [](pgState = "Failed" =>
             /\ retFindings = <<>>
             /\ retErr # Nil
             /\ retErr = FetchError(lastOutcome))
    /\ [][pgState = "Failed" =>
             /\ reqCount' = reqCount
             /\ pgState' = "Failed"
             /\ retFindings' = retFindings
             /\ retErr' = retErr]_vars

\* A fetch that failed after two pages with findings had been accumulated.
C4_Witness ==
    /\ pgState = "Failed"
    /\ reqCount = 3
    /\ lastOutcome = "status"
    /\ Len(served) >= 2

\* C5 (as claimed): every request of all-projects mode has no project_uuid==
\* clause and lists both CRITICAL and HIGH in its severity clause.
C5_AllProjectsFilter ==
    (mode = "all" /\ reqCount > 0) =>
        /\ ~Contains(lastReq.filter, <<"project_uuid==">>)
        /\ {"CRITICAL", "HIGH"} \subseteq SeverityClause(lastReq.filter)

C7_Terminates ==
    (BoundedPager /\ pgState = "Fetching") ~> (pgState \in {"Done", "Failed"})

\* A server that repeated the same non-empty cursor until the page counter
\* ended the loop.
C7_Witness ==
    /\ pgState = "Done"
    /\ stopReason = "safety limit"
    /\ lastReq.page_id = <<nextPageID>>

\* C8: when the iteration bound stops the Pager the result is a success with
\* the findings of every page fetched, the last one included.
C8_BoundIsSuccess ==
    stopReason = "safety limit" =>
        /\ pgState = "Done"
        /\ retErr = Nil
        /\ retFindings = served

\* The bound stopped a run whose pages held findings.
C8_Witness ==
    /\ stopReason = "safety limit"
    /\ Len(served) >= 2

\* C9: once a successful fetch returned an empty cursor the Pager is Done and
\* the number of requests stays the index of that response.
C9_StopsAtEmptyCursor ==
    (BoundedPager /\ firstEmpty # 0) =>
        /\ pgState = "Done"
        /\ stopReason = "no next page"
        /\ reqCount = firstEmpty

\* The second response was the first with an empty cursor.
C9_Witness ==
    /\ BoundedPager
    /\ firstEmpty = 2
    /\ pgState = "Done"
    /\ reqCount = 2

\* C10: with the project identifier, the API key, the API secret or the
\* namespace empty, main exits with a non-zero status and no request is ever
\* sent.
C10_ConfigBeforeNetwork ==
    (/\ harness = "main"
     /\ \/ flagProjectUUID = ""
        \/ env["ENDOR_API_KEY"] = ""
        \/ env["ENDOR_API_SECRET"] = ""
        \/ env["ENDOR_API_NAMESPACE"] = "") =>
        /\ authReqs = 0
        /\ reqCount = 0
        /\ mainPc \in {"start", "exited"}
        /\ mainPc = "exited" => exitCode \in {1, 2}

\* main exited on a missing namespace alone.
C10_Witness ==
    /\ mainPc = "exited"
    /\ exitCode = 1
    /\ ~argAllProjects
    /\ flagProjectUUID # ""
    /\ env["ENDOR_API_KEY"] # ""
    /\ env["ENDOR_API_SECRET"] # ""
    /\ env["ENDOR_API_NAMESPACE"] = ""

\* C11: a run whose Pager failed exits with a non-zero status and writes no
\* file; the file is written only after the Pager returned success.
C11_NoFileOnFailure ==
    /\ (harness = "main" /\ pgState = "Failed") =>
           /\ outFile = <<>>
           /\ mainPc = "exited" => exitCode = 1
    /\ outFile # <<>> => (pgState = "Done" /\ retErr = Nil)

\* main exited after a fetch failed behind a page that held findings.
C11_Witness ==
    /\ harness = "main"
    /\ pgState = "Failed"
    /\ mainPc = "exited"
    /\ Len(served) >= 1

\* C12: when the auth request fails, answers with a status other than 200 or
\* with an empty token, main exits with status 1 after that one auth request
\* and no findings request is sent.
C12_AuthFailureIsFatal ==
    (lastAuth.kind # "none" /\
        (lastAuth.kind # "ok" \/ lastAuth.status # StatusOK \/ lastAuth.token = "")) =>
        /\ authReqs = 1
        /\ reqCount = 0
        /\ pgState = "idle"
        /\ mainPc = "exited"
        /\ exitCode = 1

\* The auth endpoint answered 200 with an empty token.
C12_Witness ==
    /\ lastAuth.kind = "ok"
    /\ lastAuth.token = ""
    /\ mainPc = "exited"

\* C13: in a run of main the one auth request came before every findings
\* request, and every findings request carries the token it returned.
C13_OneTokenPerRun ==
    /\ authReqs <= 1
    /\ (harness = "main" /\ reqCount > 0) =>
           /\ authReqs = 1
           /\ lastAuth.kind = "ok"
           /\ lastAuth.token # ""
           /\ token = lastAuth.token
           /\ lastReq.authorization = <<"Bearer ", lastAuth.token>>

\* A later page request of a run of main.
C13_Witness ==
    /\ harness = "main"
    /\ reqCount = 3
    /\ lastReq.authorization = <<"Bearer ", "tok">>

\* C14 (as claimed): with ENDOR_API_KEY, ENDOR_API_SECRET and ENDOR_NAMESPACE
\* set and a project identifier given, main passes the configuration check
\* and its client uses the namespace of ENDOR_NAMESPACE.
C14_ReadmeEnvironment ==
    (/\ harness = "main"
     /\ ~argAllProjects
     /\ flagProjectUUID # ""
     /\ env["ENDOR_API_KEY"] # ""
     /\ env["ENDOR_API_SECRET"] # ""
     /\ env["ENDOR_NAMESPACE"] # ""
     /\ mainPc # "start") =>
        /\ mainPc = "exited" => authReqs = 1
        /\ client.namespace = env["ENDOR_NAMESPACE"]

\* C15 (as claimed): with --all-projects, no project identifier and the
\* credentials and namespace set, main does not stop before authentication
\* and the Pager it runs is GetFindingsForAllProjects.
C15_AllProjectsFlag ==
    (/\ harness = "main"
     /\ argAllProjects
     /\ flagProjectUUID = ""
     /\ env["ENDOR_API_KEY"] # ""
     /\ env["ENDOR_API_SECRET"] # ""
     /\ env["ENDOR_API_NAMESPACE"] # ""
     /\ env["ENDOR_NAMESPACE"] # ""
     /\ mainPc # "start") =>
        /\ mainPc = "exited" => authReqs = 1
        /\ pgState # "idle" => mode = "all"

\* C16: decoding the written document gives back the number of findings and
\* their identifiers in order, and its total_findings is the length of its
\* findings list.
C16_JsonRoundTrip ==
    outFile # <<>> =>
        LET d == Unmarshal(outFile[1])
        IN  /\ Len(d.findings) = Len(retFindings)
            /\ \A i \in 1..Len(retFindings) : d.findings[i] = UUID(retFindings[i])
            /\ d.total_findings = Len(d.findings)

\* A written file whose two findings both carry the identifier that needs
\* escaping.
C16_Witness ==
    /\ outFile # <<>>
    /\ retFindings = <<"f2", "f2">>

\* C17: after the k-th successful fetch returned a non-empty cursor the Pager
\* fetches again exactly when k <= 100 and is Done without another fetch
\* when k > 100; no invocation sends more requests than that allows.
C17_ContinuesWithinBound ==
    (BoundedPager /\ lastOutcome = "ok" /\ lastRespCursor # "") =>
        /\ pageCount = reqCount
        /\ pgState = "Fetching" <=> pageCount <= 100
        /\ pgState = "Done" <=> pageCount > 100
        /\ reqCount <= 101

\* The 100th fetch returned a cursor and the Pager goes on to fetch.
C17_Witness ==
    /\ BoundedPager
    /\ pageCount = 100
    /\ lastOutcome = "ok"
    /\ lastRespCursor # ""
    /\ pgState = "Fetching"

\* C18 (as claimed): the GetFindings without a page id also ends, whatever
\* the server answers, when every fetch returns.
C18_CursorlessTerminates ==
    (mode \in {"v1", "v2"} /\ pgState = "Fetching") ~> (pgState \in {"Done", "Failed"})

\* C19: run against the same answers, GetFindings and
\* GetFindingsForAllProjects have the same locals, state and result after
\* every step, have sent the same number of requests, and their last
\* requests agree in everything but the filter.
C19_SameMechanics ==
    mode = "pair" =>
        /\ twin.locals = Locals
        /\ twin.reqCount = reqCount
        /\ twin.lastReq.page_id = lastReq.page_id
        /\ [twin.lastReq EXCEPT !.filter = <<>>] = [lastReq EXCEPT !.filter = <<>>]

\* Both Pagers failed on the third fetch after pages with findings.
C19_Witness ==
    /\ mode = "pair"
    /\ pgState = "Failed"
    /\ twin.locals.pgState = "Failed"
    /\ reqCount = 3
    /\ Len(served) >= 1
    /\ twin.lastReq.filter # lastReq.filter

\* C20: what the bounded Pager does after a fetch does not depend on the
\* hasMore value of the fetch: with the flag flipped the next locals are the
\* same, and the next state is decided by the error, the emptiness of the
\* cursor and the page count alone.
C20_HasMoreIgnored ==
    (BoundedPager /\ pgState = "Fetching") =>
        \A o \in ServerOutcomes(MaxTotalFindings - Len(served)) :
            LET r == IF mode = "all"
                     THEN getFindingsPageForAllProjects(client, tokenArg, 100, nextPageID, o)
                     ELSE getFindingsPage(client, tokenArg, projectArg, PageSize, nextPageID, o)
                flipped == [r EXCEPT !.hasMore = ~r.hasMore]
                next(x) == IF mode = "all" THEN GetFindingsForAllProjectsLoop(Locals, x)
                           ELSE GetFindingsLoop(Locals, x)
            IN  /\ next(r) = next(flipped)
                /\ next(flipped).pgState =
                       IF r.err # Nil THEN "Failed"
                       ELSE IF r.nextPageID = "" THEN "Done"
                       ELSE IF pageCount + 1 > 100 THEN "Done"
                       ELSE "Fetching"

\* A Pager that went on after a response with a cursor.
C20_Witness ==
    /\ BoundedPager
    /\ pgState = "Fetching"
    /\ reqCount = 2
    /\ lastOutcome = "ok"
    /\ lastRespCursor = "abc"

\* C21: in one invocation of the bounded Pager every page request has
\* page_size 100, traverse true, the field mask of getFindingsFieldMask and
\* the caller's bearer token; a request and the one before it agree in
\* every parameter but page_id, and page_id is present exactly when the
\* Pager's cursor is non-empty.
C21_RequestFrame ==
    [][(BoundedPager /\ reqCount' = reqCount + 1) =>
            /\ lastReq'.page_size = 100
            /\ lastReq'.traverse = "true"
            /\ lastReq'.mask = getFindingsFieldMask
            /\ lastReq'.authorization = <<"Bearer ", tokenArg>>
            /\ (lastReq'.page_id # <<>>) <=> (nextPageID # "")
            /\ lastReq'.page_id # <<>> => lastReq'.page_id = <<nextPageID>>
            /\ reqCount >= 1 =>
                [lastReq' EXCEPT !.page_id = <<>>] = [lastReq EXCEPT !.page_id = <<>>]
            /\ (mode = "pair" /\ twin.reqCount >= 1) =>
                [twin'.lastReq EXCEPT !.page_id = <<>>] = [twin.lastReq EXCEPT !.page_id = <<>>]
      ]_vars

\* The second request of a single-project invocation went out with a page
\* id and the project's filter.
C21_Witness ==
    /\ mode \in {"single", "pair"}
    /\ reqCount = 2
    /\ lastReq.page_id = <<"abc">>
    /\ lastReq.filter = buildFindingsFilter(projectArg)
    /\ projectArg # ""

\* A page fetch the Pager in this state may make, for the server answer o.
FetchResult(o) ==
    IF mode = "v1" THEN getFindingsPageV1(client, tokenArg, projectArg, 100, o)
    ELSE IF mode = "v2" THEN getFindingsPageV2(client, tokenArg, projectArg, 100, o)
    ELSE IF mode = "all" THEN getFindingsPageForAllProjects(client, tokenArg, 100, nextPageID, o)
    ELSE getFindingsPage(client, tokenArg, projectArg, PageSize, nextPageID, o)

\* C22: every page fetch, of every variant, returns hasMore = (cursor is
\* non-empty) when it succeeds and no findings, an empty cursor and
\* hasMore = false when it fails; the GetFindings without a page id
\* therefore never leaves its loop by the second stop test alone.
C22_FlagMatchesCursor ==
    /\ pgState = "Fetching" =>
        \A o \in ServerOutcomes(MaxTotalFindings - Len(served)) :
            LET r == FetchResult(o)
            IN  /\ r.err = Nil => (r.hasMore <=> r.nextPageID # "")
                /\ r.err # Nil => (r.findings = <<>> /\ r.nextPageID = "" /\ ~r.hasMore)
                /\ mode \in {"v1", "v2"} => (~r.hasMore <=> r.nextPageID = "")
    /\ stopReason # "no next page" \/ BoundedPager

\* A GetFindings without a page id went round once on a cursor and then
\* stopped on a response without one.
C22_Witness ==
    /\ mode \in {"v1", "v2"}
    /\ pgState = "Done"
    /\ stopReason = "no more pages"
    /\ reqCount = 2
    /\ lastRespCursor = ""

====
